---- MODULE Spec2Model ----
(***************************************************************************)
(* Model of app_prediccion_incendios.py: a Streamlit script that loads a   *)
(* cached classifier, reads three sliders, computes threshold alerts, runs *)
(* the classifier on demand and over two sensitivity sweeps, and keeps a   *)
(* session-scoped prediction log (st.session_state.historial).             *)
(*                                                                         *)
(* One action is one user interaction handled to completion: the script   *)
(* runs top to bottom (and, after st.rerun(), once more).                  *)
(*                                                                         *)
(* Numbers.  Feature values given to the classifier are floats; they are   *)
(* held here as exact rationals with denominator Scale, so that the        *)
(* np.linspace grids (steps 80/49, 30/19, 70/19) are exact.  Probabilities *)
(* are held in units of 1e-5 (ProbOne = 1.0).                              *)
(***************************************************************************)
EXTENDS Integers, Sequences, FiniteSets, TLC

\* --------------------------------------------------------------- bounds
\* Longest prediction log explored: the predict button is not pressed beyond.
MaxHist == 2
\* Most executions of joblib.load explored (a failed load is retried by
\* every later script run).
MaxLoads == 2

\* Slider positions explored (a subset of each slider's domain that holds
\* the default, values on both sides of each threshold and the scenarios).
RhValues == {35, 50}
WspdValues == {15, 26}
TempValues == {25, 32}
\* Wall-clock readings (seconds since the start of the day) datetime.now()
\* returns in the runs explored.
Times == {0}

\* ------------------------------------------------------- number scales
Scale == 49 * 19
ProbOne == 10 ^ 5
Float(n) == n * Scale

\* ------------------------------------------------ program constants
UMBRALES_REFERENCIA ==
    [humedad_critica |-> 40, temp_alta |-> 30, viento_fuerte |-> 25]

rh_slider == [min_value |-> 20, max_value |-> 100, value |-> 50]
wspd_slider == [min_value |-> 0, max_value |-> 40, value |-> 15]
temp_slider == [min_value |-> 0, max_value |-> 45, value |-> 25]

\* np.linspace(a, b, n) as a sequence of n scaled floats; n - 1 divides Scale.
linspace(a, b, n) ==
    [k \in 1..n |-> (a * (n - 1) + (k - 1) * (b - a)) * (Scale \div (n - 1))]

\* (mutation of humidity_range: the sweep starts below the slider's minimum)
humidity_range_desde_10 == linspace(10, 100, 50)
humidity_range == linspace(20, 100, 50)
temp_range == linspace(10, 40, 20)
hum_range == linspace(20, 90, 20)

Range(s) == {s[i] : i \in DOMAIN s}

\* ------------------------------------------------ the classifier artifact
\* The pickled classifier is opaque to the program.  Two artifacts are
\* explored: a calibrated one that offers predict_proba, and one that only
\* offers predict.  Both read the features as (humidity, wind, temperature).
NoModel == [id |-> 0, kind |-> "none"]
Artifacts == {"rf_calibrado", "solo_predict"}

\* hasattr(model, "predict_proba")
has_predict_proba(m) == m.kind = "rf_calibrado"

\* model.predict_proba(X)[0][1], in units of 1e-5
predict_proba(m, X) ==
    ((100 * Scale - X[1]) * 901 + X[3] * 403 - X[2] * 201) \div Scale

\* model.predict(X)[0]
predict(m, X) ==
    IF m.kind = "rf_calibrado"
    THEN IF 2 * predict_proba(m, X) > ProbOne THEN 1 ELSE 0
    ELSE IF X[1] < Float(45) THEN 1 ELSE 0

\* ------------------------------------------------ load_model (cached)
\* (mutation of load_model: the decorator is missing, every call loads)
load_model_sin_cache(c, art, n) ==
    IF art \in Artifacts
    THEN LET obj == [id |-> n + 1, kind |-> art]
         IN [raised |-> FALSE, value |-> obj, cache |-> obj, loads |-> n + 1]
    ELSE [raised |-> TRUE, value |-> NoModel, cache |-> c, loads |-> n + 1]

\* (mutation of load_model: a failed load is swallowed and None returned)
load_model_silencioso(c, art, n) ==
    IF c # NoModel
    THEN [raised |-> FALSE, value |-> c, cache |-> c, loads |-> n]
    ELSE IF art \in Artifacts
         THEN LET obj == [id |-> n + 1, kind |-> art]
              IN [raised |-> FALSE, value |-> obj, cache |-> obj, loads |-> n + 1]
         ELSE [raised |-> FALSE, value |-> NoModel, cache |-> c, loads |-> n + 1]

\* @st.cache_resource def load_model(): return joblib.load(...)
\* c: the cache entry, art: the file on disk, n: executions of joblib.load so
\* far.  A cached value is returned without running the body; an exception
\* raised by the body is not cached.
load_model(c, art, n) ==
    IF c # NoModel
    THEN [raised |-> FALSE, value |-> c, cache |-> c, loads |-> n]
    ELSE IF art \in Artifacts
         THEN LET obj == [id |-> n + 1, kind |-> art]
              IN [raised |-> FALSE, value |-> obj, cache |-> obj, loads |-> n + 1]
         ELSE [raised |-> TRUE, value |-> NoModel, cache |-> c, loads |-> n + 1]

\* ------------------------------------------------ tab 1: alerts
\* (mutation of compute_alerts: the humidity comparison is not strict)
compute_alerts_no_estricto(r, w, t) ==
    LET a1 == IF r <= UMBRALES_REFERENCIA.humedad_critica
              THEN <<"humedad_critica">> ELSE <<>>
        a2 == IF t > UMBRALES_REFERENCIA.temp_alta
              THEN <<"temp_alta">> ELSE <<>>
        a3 == IF w > UMBRALES_REFERENCIA.viento_fuerte
              THEN <<"viento_fuerte">> ELSE <<>>
    IN a1 \o a2 \o a3

\* alerts = []; three independent ifs, each appending one message
compute_alerts(r, w, t) ==
    LET a1 == IF r < UMBRALES_REFERENCIA.humedad_critica
              THEN <<"humedad_critica">> ELSE <<>>
        a2 == IF t > UMBRALES_REFERENCIA.temp_alta
              THEN <<"temp_alta">> ELSE <<>>
        a3 == IF w > UMBRALES_REFERENCIA.viento_fuerte
              THEN <<"viento_fuerte">> ELSE <<>>
    IN a1 \o a2 \o a3

\* ------------------------------------------------ tab 1: predict button
\* X_input = np.array([[rh, wspd, temp]])
X_input(r, w, t) == <<Float(r), Float(w), Float(t)>>

\* prob = model.predict_proba(X_input)[0][1] if hasattr(...) else 0.5
prob_input(m, X) ==
    IF has_predict_proba(m) THEN predict_proba(m, X) ELSE ProbOne \div 2

\* (mutation of etiqueta: the two labels are swapped)
etiqueta_invertida(p) == IF p = 1 THEN "BAJO" ELSE "MODERADO/ALTO"

\* 'MODERADO/ALTO' if pred == 1 else 'BAJO'
etiqueta(p) == IF p = 1 THEN "MODERADO/ALTO" ELSE "BAJO"

\* round(prob, 4): nearest multiple of 1e-4, a tie going to the even one
round4(p) ==
    LET q == p \div 10
        r == p % 10
    IN IF r < 5 THEN q * 10
       ELSE IF r > 5 THEN (q + 1) * 10
       ELSE IF q % 2 = 0 THEN q * 10 ELSE (q + 1) * 10

\* Text.  A Python str is held as the sequence of its characters; the two
\* label strings and the column names never need taking apart and are held
\* as one element each.
Digito == <<"0", "1", "2", "3", "4", "5", "6", "7", "8", "9">>

\* str(n) of a non-negative int
RECURSIVE str_int(_)
str_int(n) ==
    IF n < 10 THEN <<Digito[n + 1]>>
    ELSE str_int(n \div 10) \o <<Digito[(n % 10) + 1]>>

\* %m, %d, %H, %M, %S: two digits, zero-padded
dos_digitos(n) == <<Digito[(n \div 10) + 1], Digito[(n % 10) + 1]>>

\* datetime.now().strftime("%Y-%m-%d %H:%M:%S"); the clock counts the seconds
\* since 2025-01-01 00:00:00 and stays within that January
strftime(clock) ==
    <<"2", "0", "2", "5", "-", "0", "1", "-">>
    \o dos_digitos(1 + clock \div 86400) \o <<" ">>
    \o dos_digitos((clock \div 3600) % 24) \o <<":">>
    \o dos_digitos((clock \div 60) % 60) \o <<":">>
    \o dos_digitos(clock % 60)

\* datetime.now().strftime('%Y%m%d_%H%M%S') (the export's file name)
strftime_archivo(clock) ==
    <<"2", "0", "2", "5", "0", "1">>
    \o dos_digitos(1 + clock \div 86400) \o <<"_">>
    \o dos_digitos((clock \div 3600) % 24)
    \o dos_digitos((clock \div 60) % 60)
    \o dos_digitos(clock % 60)

\* (mutation of nueva_entrada: the entry records whether there is an alert,
\* not how many)
nueva_entrada_hay_alerta(clock, r, w, t, p, pb, al) ==
    [Fecha |-> strftime(clock), Humedad |-> r, Viento |-> w, Temperatura |-> t,
     Prediccion |-> etiqueta(p), Probabilidad |-> round4(pb),
     Alertas |-> IF al = <<>> THEN 0 ELSE 1]

\* the dict appended to st.session_state.historial
nueva_entrada(clock, r, w, t, p, pb, al) ==
    [Fecha |-> strftime(clock), Humedad |-> r, Viento |-> w, Temperatura |-> t,
     Prediccion |-> etiqueta(p), Probabilidad |-> round4(pb), Alertas |-> Len(al)]

\* st.session_state is held as the set of its keys and the value of the one
\* key the script uses.
session_vacia == [keys |-> {}, historial |-> <<>>]

\* (mutation of guardar_en_historial: the list is rebuilt around the entry)
guardar_reemplazando(ss, e) ==
    [keys |-> ss.keys \cup {"historial"}, historial |-> <<e>>]

\* if 'historial' not in st.session_state: ... = []; then .append(entry)
guardar_en_historial(ss, e) ==
    [keys |-> ss.keys \cup {"historial"},
     historial |-> (IF "historial" \in ss.keys THEN ss.historial ELSE <<>>) \o <<e>>]

\* ------------------------------------------------ tab 2: sweeps
\* X_test = np.array([[h, wspd, temp]])   (humidity sweep)
X_test_humedad(h, w, t) == <<h, Float(w), Float(t)>>
\* (mutation of X_test_mapa: temperature and humidity change places)
X_test_mapa_invertido(h, w, t) == <<t, Float(w), h>>
\* X_test = np.array([[h, wspd, t]])      (temperature x humidity sweep)
X_test_mapa(h, w, t) == <<h, Float(w), t>>

prob_humedad(m, X) ==
    IF has_predict_proba(m) THEN predict_proba(m, X) ELSE ProbOne \div 2
prob_mapa(m, X) ==
    IF has_predict_proba(m) THEN predict_proba(m, X) ELSE ProbOne \div 2

\* probabilities: one value per point of humidity_range
sweep_humedad(m, w, t) ==
    [k \in DOMAIN humidity_range |->
        prob_humedad(m, X_test_humedad(humidity_range[k], w, t))]

\* risk_matrix[i, j]: row i a temperature, column j a humidity
sweep_mapa(m, w) ==
    [i \in DOMAIN temp_range |-> [j \in DOMAIN hum_range |->
        prob_mapa(m, X_test_mapa(hum_range[j], w, temp_range[i]))]]

\* the feature arrays one script run hands to the classifier, by call site,
\* in call order (the sweeps call it only when it offers predict_proba)
llamadas(m, b, r, w, t) ==
    [predict |-> IF b = "predict" THEN <<X_input(r, w, t)>> ELSE <<>>,
     humedad |-> IF has_predict_proba(m)
                 THEN [k \in DOMAIN humidity_range |->
                          X_test_humedad(humidity_range[k], w, t)]
                 ELSE <<>>,
     mapa |-> IF has_predict_proba(m)
              THEN [i \in DOMAIN temp_range |-> [j \in DOMAIN hum_range |->
                       X_test_mapa(hum_range[j], w, temp_range[i])]]
              ELSE <<>>]

sin_llamadas == [predict |-> <<>>, humedad |-> <<>>, mapa |-> <<>>]

\* ------------------------------------------------ tab 3: history
\* 'historial' in st.session_state and st.session_state.historial
hay_historial(ss) == "historial" \in ss.keys /\ ss.historial # <<>>

\* the three count metrics over df_hist
metricas(h) ==
    [total |-> Len(h),
     altos |-> Cardinality({i \in DOMAIN h : h[i].Prediccion = "MODERADO/ALTO"}),
     bajos |-> Cardinality({i \in DOMAIN h : h[i].Prediccion = "BAJO"})]

Columnas ==
    <<"Fecha", "Humedad", "Viento", "Temperatura", "Prediccion", "Probabilidad", "Alertas">>

\* the decimals of a float in [0, 1] held in units of 1e-5, without the
\* trailing zeros repr() does not print (one decimal is always printed)
RECURSIVE sin_ceros(_)
sin_ceros(ds) ==
    IF Len(ds) > 1 /\ ds[Len(ds)] = "0" THEN sin_ceros(SubSeq(ds, 1, Len(ds) - 1))
    ELSE ds

\* repr(x) of a float column value, as to_csv writes it: 0.5211, 0.5, 1.0
repr_float(p) ==
    LET f == p % ProbOne
    IN str_int(p \div ProbOne) \o <<".">> \o
       sin_ceros([k \in 1 .. 5 |-> Digito[((f \div (10 ^ (5 - k))) % 10) + 1]])

\* ",".join(fields): one line of the file (no field holds a comma, a quote
\* or a line break, so to_csv quotes nothing)
RECURSIVE linea(_)
linea(campos) ==
    IF Len(campos) = 1 THEN campos[1]
    ELSE campos[1] \o <<",">> \o linea(Tail(campos))

\* the DataFrame's cells of one entry, in column order, as to_csv prints them
campos_de(e) ==
    <<e.Fecha, str_int(e.Humedad), str_int(e.Viento), str_int(e.Temperatura),
      <<e.Prediccion>>, repr_float(e.Probabilidad), str_int(e.Alertas)>>

\* (mutation of to_csv: index=False is forgotten, every line starts with
\* the row index, the header with an empty name)
to_csv_con_indice(h) ==
    <<<<",">> \o linea([c \in DOMAIN Columnas |-> <<Columnas[c]>>])>> \o
    [i \in DOMAIN h |-> str_int(i - 1) \o <<",">> \o linea(campos_de(h[i]))]

\* df_hist.to_csv(index=False): the lines of the file, the header first, then
\* one line per entry in log order, the columns in the order of the dict's keys
to_csv(h) ==
    <<linea([c \in DOMAIN Columnas |-> <<Columnas[c]>>])>> \o
    [i \in DOMAIN h |-> linea(campos_de(h[i]))]

\* "Exportar a CSV": the download offered to the user
exportar(h, clock) ==
    <<[data |-> to_csv(h), file_name |-> strftime_archivo(clock)]>>

\* (mutation of tras_botones: both buttons of the history tab clear the log)
tras_botones_ambos(ss, b, hay) ==
    IF hay /\ b \in {"clear", "export"}
    THEN [keys |-> ss.keys \cup {"historial"}, historial |-> <<>>]
    ELSE ss

\* (mutation of limpiar: the assignment is lost)
limpiar_nada(ss) == ss

\* "Limpiar Historial": st.session_state.historial = []
limpiar(ss) == [keys |-> ss.keys \cup {"historial"}, historial |-> <<>>]

\* the session state after the two buttons of the history tab, which exist
\* only while the log is not empty: export leaves it alone, clear empties it
tras_botones(ss, b, hay) ==
    IF hay /\ b = "clear" THEN limpiar(ss) ELSE ss

\* ------------------------------------------------ state
VARIABLES
    artifact,       \* the classifier file on disk: an artifact, or "missing"
    cache,          \* st.cache_resource's entry for load_model (process-wide)
    loads,          \* executions of joblib.load so far (process-wide)
    model,          \* the value bound to `model` in the session's latest run
    rh, wspd, temp, \* the slider positions of the session
    session_state,  \* st.session_state of the session
    widgets,        \* the input widgets the latest run rendered
    event,          \* the interaction the latest run handled
    alerts,         \* `alerts` of the latest run
    calls,          \* the classifier invocations of the latest run
    resultado,      \* <<[pred, prob]>> shown by the predict handler, or <<>>
    probabilities,  \* the humidity sweep's list, or <<>>
    risk_matrix,    \* the heatmap's matrix, or <<>>
    resumen,        \* <<metrics>> shown by the history tab, or <<>> (info box)
    download,       \* <<[data, file_name]>> offered by export, or <<>>
    error           \* the exception that stopped the latest run, or "none"

vars ==
    <<artifact, cache, loads, model, rh, wspd, temp, session_state, widgets,
      event, alerts, calls, resultado, probabilities, risk_matrix, resumen,
      download, error>>

\* ------------------------------------------------ one script run
\* What one top-to-bottom execution of the script leaves behind, given the
\* process cache (c, n), the file on disk, the session state, the pressed
\* button b ("none" when a slider moved or the page was loaded), the slider
\* positions and the clock.
script(c, n, art, ss, b, r, w, t, clock) ==
    LET ld == load_model(c, art, n) IN
    IF ld.raised
    THEN \* line 25 raises: the run stops there, Streamlit shows the exception
         [cache |-> ld.cache, loads |-> ld.loads, model |-> NoModel,
          session_state |-> ss, widgets |-> {}, alerts |-> <<>>, calls |-> sin_llamadas,
          resultado |-> <<>>, probabilities |-> <<>>, risk_matrix |-> <<>>,
          resumen |-> <<>>, download |-> <<>>, error |-> "load_model",
          rerun |-> FALSE]
    ELSE LET m == ld.value
             al == compute_alerts(r, w, t)
             X == X_input(r, w, t)
             p == predict(m, X)
             pb == prob_input(m, X)
             ss1 == IF b = "predict"
                    THEN guardar_en_historial(ss, nueva_entrada(clock, r, w, t, p, pb, al))
                    ELSE ss
             hay == hay_historial(ss1)
             ss2 == tras_botones(ss1, b, hay)
         IN [cache |-> ld.cache, loads |-> ld.loads, model |-> m,
             session_state |-> ss2,
             widgets |-> {"rh", "wspd", "temp", "predict"}
                         \cup (IF hay THEN {"export", "clear"} ELSE {}),
             alerts |-> al,
             calls |-> llamadas(m, b, r, w, t),
             resultado |-> IF b = "predict" THEN <<[pred |-> p, prob |-> pb]>> ELSE <<>>,
             probabilities |-> sweep_humedad(m, w, t),
             risk_matrix |-> sweep_mapa(m, w),
             resumen |-> IF hay THEN <<metricas(ss1.historial)>> ELSE <<>>,
             download |-> IF hay /\ b = "export"
                          THEN exportar(ss1.historial, clock) ELSE <<>>,
             error |-> "none",
             rerun |-> hay /\ b = "clear"]

\* The run, followed by the run st.rerun() starts (no button is pressed in it).
interaction(c, n, art, ss, b, r, w, t, clock) ==
    LET first == script(c, n, art, ss, b, r, w, t, clock)
    IN IF b = "clear" /\ first.rerun
       THEN script(first.cache, first.loads, art, first.session_state, "none", r, w, t, clock)
       ELSE first

\* A load that would fail is explored only MaxLoads times.
CanRun == cache # NoModel \/ loads < MaxLoads

Handle(ev, b, r, w, t, clock) ==
    \E out \in {interaction(cache, loads, artifact, session_state, b, r, w, t, clock)} :
       /\ CanRun
       /\ event' = ev
       /\ rh' = r /\ wspd' = w /\ temp' = t
       /\ cache' = out.cache
       /\ loads' = out.loads
       /\ model' = out.model
       /\ session_state' = out.session_state
       /\ widgets' = out.widgets
       /\ alerts' = out.alerts
       /\ calls' = out.calls
       /\ resultado' = out.resultado
       /\ probabilities' = out.probabilities
       /\ risk_matrix' = out.risk_matrix
       /\ resumen' = out.resumen
       /\ download' = out.download
       /\ error' = out.error
       /\ UNCHANGED artifact

\* ------------------------------------------------ initial state
\* The process has started and a browser session is attached; no script run
\* has happened yet.  The sliders hold their default values.
InitProcess ==
    /\ artifact \in Artifacts \cup {"missing"}
    /\ cache = NoModel
    /\ loads = 0
    /\ model = NoModel
    /\ session_state = session_vacia
    /\ widgets = {}
    /\ event = "start"
    /\ alerts = <<>>
    /\ calls = sin_llamadas
    /\ resultado = <<>>
    /\ probabilities = <<>>
    /\ risk_matrix = <<>>
    /\ resumen = <<>>
    /\ download = <<>>
    /\ error = "none"

Init ==
    /\ InitProcess
    /\ rh = rh_slider.value
    /\ wspd = wspd_slider.value
    /\ temp = temp_slider.value

\* ------------------------------------------------ actions
\* The page is loaded, or the user asks for a rerun: a run with no input change.
PageRun ==
    /\ CanRun
    /\ Handle("none", "none", rh, wspd, temp, 0)

MoveRh ==
    /\ "rh" \in widgets
    /\ \E v \in RhValues \ {rh} : Handle("none", "none", v, wspd, temp, 0)

MoveWspd ==
    /\ "wspd" \in widgets
    /\ \E v \in WspdValues \ {wspd} : Handle("none", "none", rh, v, temp, 0)

MoveTemp ==
    /\ "temp" \in widgets
    /\ \E v \in TempValues \ {temp} : Handle("none", "none", rh, wspd, v, 0)

\* the log as the script reads it: no key yet reads as no entries
registro(ss) == IF "historial" \in ss.keys THEN ss.historial ELSE <<>>

PressPredict ==
    /\ "predict" \in widgets
    /\ Len(registro(session_state)) < MaxHist
    /\ \E clock \in Times : Handle("predict", "predict", rh, wspd, temp, clock)

PressExport ==
    /\ "export" \in widgets
    /\ \E clock \in Times : Handle("export", "export", rh, wspd, temp, clock)

PressClear ==
    /\ "clear" \in widgets
    /\ Handle("clear", "clear", rh, wspd, temp, 0)

\* A script run of another session of the same process: of the state kept
\* here it touches only load_model's cache.
OtherSessionRun ==
    LET ld == load_model(cache, artifact, loads)
    IN /\ CanRun
       /\ cache' = ld.cache
       /\ loads' = ld.loads
       /\ UNCHANGED <<artifact, model, rh, wspd, temp, session_state, widgets,
                      event, alerts, calls, resultado, probabilities,
                      risk_matrix, resumen, download, error>>

Next ==
    \/ PageRun
    \/ MoveRh
    \/ MoveWspd
    \/ MoveTemp
    \/ PressPredict
    \/ PressExport
    \/ PressClear
    \/ OtherSessionRun

Spec == Init /\ [][Next]_vars

\* ------------------------------------------------ the alert rule alone
\* The alert computation is a pure function of the three slider values.  This
\* specification starts the sliders anywhere in their domains (every integer
\* position the widgets allow) and runs lines 153-184 only: the sliders are
\* rendered and `alerts` is computed.
InitSliders ==
    /\ InitProcess
    /\ rh \in rh_slider.min_value .. rh_slider.max_value
    /\ wspd \in wspd_slider.min_value .. wspd_slider.max_value
    /\ temp \in temp_slider.min_value .. temp_slider.max_value

RenderSliders ==
    /\ widgets = {}
    /\ widgets' = {"rh", "wspd", "temp"}
    /\ alerts' = compute_alerts(rh, wspd, temp)
    /\ UNCHANGED <<artifact, cache, loads, model, rh, wspd, temp, session_state,
                   event, calls, resultado, probabilities, risk_matrix, resumen,
                   download, error>>

NextSliders == RenderSliders

SpecSliders == InitSliders /\ [][NextSliders]_vars

\* ================================================== properties

\* The step is the handling of a press of the named button.
PredictStep == event' = "predict" /\ PressPredict
ClearStep == event' = "clear" /\ PressClear

\* C1: every press of the predict button appends exactly one entry at the
\* end of the log: the log grows by one and the entries it held stay as they
\* were, in the same order.
C1_PredictAppendsOne ==
    [][PredictStep =>
        /\ "historial" \in session_state'.keys
        /\ Len(session_state'.historial) = Len(registro(session_state)) + 1
        /\ SubSeq(session_state'.historial, 1, Len(registro(session_state)))
              = registro(session_state)]_vars

\* a predict press has just appended to a log that already held an entry
\* made at another slider position
C1_Witness ==
    /\ event = "predict"
    /\ Len(registro(session_state)) = 2
    /\ session_state.historial[1].Humedad # session_state.historial[2].Humedad

\* what a reader of the history tab sees: the metrics, or (info box) nothing
lectura ==
    IF resumen = <<>> THEN [total |-> 0, altos |-> 0, bajos |-> 0] ELSE resumen[1]

\* C2: a clear leaves the log empty whatever it held; while no predict
\* button is pressed the log stays empty and every read shows zero entries;
\* the first predict after it yields a log of that one new entry only.
C2_ClearEmpties ==
    [][/\ ClearStep =>
            /\ session_state'.historial = <<>>
            /\ lectura' = [total |-> 0, altos |-> 0, bajos |-> 0]
       /\ (registro(session_state) = <<>> /\ ~PredictStep) =>
            /\ registro(session_state') = <<>>
            /\ lectura' = [total |-> 0, altos |-> 0, bajos |-> 0]
       /\ (registro(session_state) = <<>> /\ PredictStep) =>
            Len(registro(session_state')) = 1]_vars

\* the log has just been cleared (the key exists, so entries were appended)
C2_Witness ==
    /\ event = "clear"
    /\ "historial" \in session_state.keys
    /\ session_state.historial = <<>>
    /\ "clear" \notin widgets

\* C3: over the whole slider domain the alert set holds the humidity alert
\* exactly when humidity < 40, the temperature alert exactly when
\* temperature > 30 and the wind alert exactly when wind > 25, all of them
\* together and nothing else; (35, 10, 32) gives the humidity and temperature
\* alerts, (50, 15, 25) gives none.
C3_AlertsMatchThresholds ==
    "rh" \in widgets =>
        /\ ("humedad_critica" \in Range(alerts)) <=> (rh < 40)
        /\ ("temp_alta" \in Range(alerts)) <=> (temp > 30)
        /\ ("viento_fuerte" \in Range(alerts)) <=> (wspd > 25)
        /\ Range(alerts) \subseteq {"humedad_critica", "temp_alta", "viento_fuerte"}
        /\ Len(alerts) = Cardinality(Range(alerts))
        /\ (rh = 35 /\ wspd = 10 /\ temp = 32) =>
              Range(alerts) = {"humedad_critica", "temp_alta"}
        /\ (rh = 50 /\ wspd = 15 /\ temp = 25) => alerts = <<>>

\* the alerts have been computed with every slider on its threshold value
C3_Witness ==
    /\ "rh" \in widgets
    /\ rh = 40 /\ temp = 30 /\ wspd = 25
    /\ alerts = <<>>

\* a probability is a number (a float in [0, 1]), not a marker
EsNumerica(p) == p \in 0 .. ProbOne

\* C4: with a classifier that offers no probability estimate, no numeric
\* probability is produced: not by the predict handler, not in a log entry,
\* not at any point of the two sweeps.
C4_NoFabricatedProbability ==
    (model # NoModel /\ ~has_predict_proba(model)) =>
        /\ \A k \in DOMAIN resultado : ~EsNumerica(resultado[k].prob)
        /\ \A k \in DOMAIN registro(session_state) :
              ~EsNumerica(registro(session_state)[k].Probabilidad)
        /\ \A k \in DOMAIN probabilities : ~EsNumerica(probabilities[k])
        /\ \A i \in DOMAIN risk_matrix : \A j \in DOMAIN risk_matrix[i] :
              ~EsNumerica(risk_matrix[i][j])

\* C5: the label of every log entry is MODERADO/ALTO exactly when the
\* classifier's output for the entry's (humidity, wind, temperature) is 1,
\* and BAJO otherwise, whatever the entry's alert count.
C5_LabelFromClassifier ==
    \A k \in DOMAIN registro(session_state) :
        LET e == registro(session_state)[k]
            salida == predict(cache, <<Float(e.Humedad), Float(e.Viento), Float(e.Temperatura)>>)
        IN /\ e.Prediccion \in {"MODERADO/ALTO", "BAJO"}
           /\ (e.Prediccion = "MODERADO/ALTO") <=> (salida = 1)
           /\ (e.Prediccion = "BAJO") <=> (salida = 0)

\* the log holds an entry labelled BAJO with an alert and an entry labelled
\* MODERADO/ALTO with none
C5_Witness ==
    /\ \E k \in DOMAIN registro(session_state) :
          /\ session_state.historial[k].Prediccion = "BAJO"
          /\ session_state.historial[k].Alertas > 0
    /\ \E k \in DOMAIN registro(session_state) :
          /\ session_state.historial[k].Prediccion = "MODERADO/ALTO"
          /\ session_state.historial[k].Alertas = 0

\* C6: every feature array handed to the classifier is (humidity, wind,
\* temperature): the slider values at the predict button, the grid humidity
\* with the wind and temperature sliders in the humidity sweep, the grid
\* humidity and grid temperature with the wind slider in the heatmap sweep.
C6_FeatureOrder ==
    /\ \A k \in DOMAIN calls.predict :
          calls.predict[k] = <<Float(rh), Float(wspd), Float(temp)>>
    /\ \A k \in DOMAIN calls.humedad :
          calls.humedad[k] = <<humidity_range[k], Float(wspd), Float(temp)>>
    /\ \A i \in DOMAIN calls.mapa : \A j \in DOMAIN calls.mapa[i] :
          calls.mapa[i][j] = <<hum_range[j], Float(wspd), temp_range[i]>>

\* one run has called the classifier from all three sites
C6_Witness ==
    /\ event = "predict"
    /\ Len(calls.predict) = 1
    /\ Len(calls.humedad) = 50
    /\ Len(calls.mapa) = 20 /\ Len(calls.mapa[20]) = 20
    /\ rh = 35 /\ wspd = 26 /\ temp = 32

C8_ReadOnlyPaths ==
    [][(event' \in {"none", "export"} \/ ~(PredictStep \/ ClearStep)) =>
          session_state' = session_state]_vars

\* an export has just been served from a log of two entries
C8_Witness ==
    /\ event = "export"
    /\ download # <<>>
    /\ Len(registro(session_state)) = 2
    /\ Len(download[1].data) = 3

InDomain(X) ==
    /\ Float(20) <= X[1] /\ X[1] <= Float(100)
    /\ 0 <= X[2] /\ X[2] <= Float(40)
    /\ 0 <= X[3] /\ X[3] <= Float(45)

C10_LoadFailureHalts ==
    [][/\ error' = "load_model" =>
            /\ calls' = sin_llamadas
            /\ resultado' = <<>>
            /\ probabilities' = <<>> /\ risk_matrix' = <<>>
            /\ model' = NoModel
            /\ widgets' = {}
            /\ session_state' = session_state
            /\ registro(session_state') = <<>>
       /\ (artifact = "missing" /\ PageRun) => error' = "load_model"]_vars

\* the load has failed in two runs
C10_Witness ==
    /\ error = "load_model"
    /\ artifact = "missing"
    /\ loads = 2

\* the thresholds an entry's own recorded inputs cross
UmbralesCruzados(e) ==
    (IF e.Humedad < 40 THEN 1 ELSE 0)
    + (IF e.Temperatura > 30 THEN 1 ELSE 0)
    + (IF e.Viento > 25 THEN 1 ELSE 0)

\* C12: in every log entry the recorded alert count is the number of
\* thresholds the entry's own inputs cross (humidity < 40, temperature > 30,
\* wind > 25), hence between 0 and 3, wherever the sliders stand now.
C12_AlertCountOfEntry ==
    \A k \in DOMAIN registro(session_state) :
        LET e == registro(session_state)[k]
        IN /\ e.Alertas = UmbralesCruzados(e)
           /\ e.Alertas \in 0 .. 3

\* the log holds an entry with three alerts and one with none, and the
\* sliders have since moved to a position with one alert
C12_Witness ==
    /\ Len(registro(session_state)) = 2
    /\ session_state.historial[1].Alertas = 3
    /\ session_state.historial[2].Alertas = 0
    /\ Len(alerts) = 1
    /\ event = "none"

\* Reading the exported file back: the line cut at its commas, ...
RECURSIVE separar(_, _)
separar(txt, campo) ==
    IF txt = <<>> THEN <<campo>>
    ELSE IF Head(txt) = "," THEN <<campo>> \o separar(Tail(txt), <<>>)
    ELSE separar(Tail(txt), Append(campo, Head(txt)))

ValorDigito(c) == CHOOSE d \in 0 .. 9 : Digito[d + 1] = c

\* ... a column of digits read as an integer, ...
RECURSIVE leer_int(_)
leer_int(cs) ==
    IF cs = <<>> THEN 0
    ELSE 10 * leer_int(SubSeq(cs, 1, Len(cs) - 1)) + ValorDigito(cs[Len(cs)])

PosPunto(cs) == CHOOSE k \in DOMAIN cs : cs[k] = "."

\* ... a decimal read as a float (in units of 1e-5), ...
leer_float(cs) ==
    LET k == PosPunto(cs)
        dec == SubSeq(cs, k + 1, Len(cs))
    IN leer_int(SubSeq(cs, 1, k - 1)) * ProbOne
       + leer_int(dec) * 10 ^ (5 - Len(dec))

\* ... and a data line read as a record under the header's column names.
leer_fila(cabecera, txt) ==
    LET c == separar(txt, <<>>)
        col(nombre) == c[CHOOSE k \in DOMAIN cabecera : cabecera[k] = <<nombre>>]
    IN [Fecha |-> col("Fecha"),
        Humedad |-> leer_int(col("Humedad")),
        Viento |-> leer_int(col("Viento")),
        Temperatura |-> leer_int(col("Temperatura")),
        Prediccion |-> col("Prediccion")[1],
        Probabilidad |-> leer_float(col("Probabilidad")),
        Alertas |-> leer_int(col("Alertas"))]

\* C11: the exported file has the header Fecha, Humedad, Viento, Temperatura,
\* Prediccion, Probabilidad, Alertas and one line of seven fields per log
\* entry, in log order; read back, line i gives the field values of entry i
\* of the log as it is at the export.
C11_ExportRoundTrip ==
    \A d \in DOMAIN download :
        LET data == download[d].data
            cabecera == separar(data[1], <<>>)
            h == registro(session_state)
        IN /\ cabecera = [c \in DOMAIN Columnas |-> <<Columnas[c]>>]
           /\ Len(data) = Len(h) + 1
           /\ \A i \in DOMAIN h :
                 /\ Len(separar(data[i + 1], <<>>)) = 7
                 /\ leer_fila(cabecera, data[i + 1]) = h[i]

\* an export of two entries that differ in every column but the timestamp
C11_Witness ==
    /\ event = "export"
    /\ download # <<>>
    /\ Len(registro(session_state)) = 2
    /\ session_state.historial[1].Prediccion # session_state.historial[2].Prediccion
    /\ session_state.historial[1].Probabilidad # session_state.historial[2].Probabilidad
    /\ session_state.historial[1].Alertas # session_state.historial[2].Alertas
    /\ session_state.historial[1].Humedad # session_state.historial[2].Humedad
    /\ session_state.historial[1].Viento # session_state.historial[2].Viento
    /\ session_state.historial[1].Temperatura # session_state.historial[2].Temperatura

====
